---- MODULE Spec2Model ----
(***************************************************************************)
(* Otsu + watershed segmentation kernel (otsu_watershed.py) and the        *)
(* overlap metrics used to validate it (verify_results.py).                *)
(*                                                                         *)
(* Grids are records [h, w, px]: px is the row-major sequence of samples.  *)
(* Python's None (an image cv2.imread could not decode) is NoneImg.        *)
(* Floating-point scores are kept as exact fractions [num, den].           *)
(***************************************************************************)
EXTENDS Integers, Sequences, FiniteSets, TLC

VARIABLES
    \* ---- metrics (dice_coef, iou, verify_results.load_mask) ----
    pred_in,        \* the predicted mask handed to the scorer (array or file content)
    gt_in,          \* the ground-truth mask handed to the scorer
    mpc,            \* "idle" | "direct" | "validated"
    d,              \* dice_coef's return value, a fraction
    j,              \* iou's return value, a fraction
    merr,           \* "none" | "ValueError" | "skipped"
    \* ---- verify_results.main ----
    files,          \* the result files of the batch, in sorted order
    cur,            \* the result file the loop stands at
    bpc,            \* "loop" | "finished" | "raised"
    warnings,       \* the WARNING lines printed so far
    summary,        \* the list `summary`
    avg_d, avg_j,   \* the averages printed at the end
    \* ---- process_image ----
    img,            \* the argument: a grid, or NoneImg
    return_overlay, \* the argument
    pc,             \* where the call stands
    blur, th_otsu, strict_t, th, sure_bg, dist_transform, dist_max,
    sure_fg, unknown, num_labels, markers, comps, selected_labels,
    seg, overlay,   \* the locals of process_image; seg and overlay are returned
    error,          \* the exception the call raised, or "none"
    steps,          \* the stages this call has run
    prev            \* what the previous call on the same image returned

bvars == <<files, cur, bpc, warnings, summary, avg_d, avg_j>>
mvars == <<pred_in, gt_in, mpc, d, j, merr, bvars>>
locals == <<blur, th_otsu, strict_t, th, sure_bg, dist_transform, dist_max,
            sure_fg, unknown, num_labels, markers, comps, selected_labels,
            seg, overlay>>
pvars == <<img, return_overlay, pc, locals, error, steps, prev>>
vars == <<mvars, pvars>>

----------------------------------------------------------------------------
(* Bounds of the metric inputs *)

\* masks of at most this many pixels are enumerated
MaxPixels == 3

\* a nonzero sample that is not above load_mask's cut at 127
Grey == 100

Samples == {0, Grey, 255}

----------------------------------------------------------------------------
(* Grids *)

NoneImg == [h |-> -1, w |-> -1, px |-> <<>>]

Grid(h, w, f(_)) == [h |-> h, w |-> w, px |-> [i \in 1..(h * w) |-> f(i)]]

Map(g, f(_)) == [h |-> g.h, w |-> g.w, px |-> [i \in 1..(g.h * g.w) |-> f(g.px[i])]]

\* sum of s[lo..hi], halving the range
RECURSIVE SumRange(_, _, _)
SumRange(s, lo, hi) ==
    IF lo > hi THEN 0
    ELSE IF lo = hi THEN s[lo]
    ELSE LET mid == (lo + hi) \div 2
         IN SumRange(s, lo, mid) + SumRange(s, mid + 1, hi)

\* ndarray.sum()
Sum(g) == SumRange(g.px, 1, g.h * g.w)

\* A loop of the code, run as at most 48 * 48 applications of its body; the
\* body leaves a finished state (done = TRUE) as it is.
RECURSIVE Repeat(_, _, _)
Repeat(step(_), s, k) ==
    IF k = 0 \/ s.done THEN s
    ELSE LET t == step(s)
         IN IF t.done \in BOOLEAN THEN Repeat(step, t, k - 1) ELSE t

Loop(step(_), s) == Repeat(LAMBDA t : Repeat(step, t, 48), s, 48)

\* (m > t).astype(np.uint8)
GreaterThan(g, t) == Map(g, LAMBDA v : IF v > t THEN 1 ELSE 0)

\* numpy broadcasting of two 2-D shapes: a dimension of 1 is stretched
Broadcastable(a, b) ==
    /\ (a.h = b.h \/ a.h = 1 \/ b.h = 1)
    /\ (a.w = b.w \/ a.w = 1 \/ b.w = 1)

BroadcastAt(a, H, W, i) ==
    LET r == (i - 1) \div W
        c == (i - 1) % W
        ra == IF a.h = 1 THEN 0 ELSE r
        ca == IF a.w = 1 THEN 0 ELSE c
    IN a.px[ra * a.w + ca + 1]

\* elementwise a op b on 0/1 grids, with broadcasting
Elementwise(a, b, op(_, _)) ==
    LET H == IF a.h = 1 THEN b.h ELSE a.h
        W == IF a.w = 1 THEN b.w ELSE a.w
    IN Grid(H, W, LAMBDA i : op(BroadcastAt(a, H, W, i), BroadcastAt(b, H, W, i)))

BitAnd(x, y) == IF x = 1 /\ y = 1 THEN 1 ELSE 0
BitOr(x, y) == IF x = 1 \/ y = 1 THEN 1 ELSE 0

----------------------------------------------------------------------------
(* Exact arithmetic on naturals beyond 32 bits: little-endian digit        *)
(* sequences in base 10000, used where the code computes in float64 on     *)
(* sums of squares.                                                        *)

RECURSIVE BigOf(_)
BigOf(n) == IF n = 0 THEN <<>> ELSE <<n % 10000>> \o BigOf(n \div 10000)

RECURSIVE BigAddC(_, _, _)
BigAddC(a, b, c) ==
    IF a = <<>> /\ b = <<>>
    THEN (IF c = 0 THEN <<>> ELSE <<c>>)
    ELSE LET x == IF a = <<>> THEN 0 ELSE Head(a)
             y == IF b = <<>> THEN 0 ELSE Head(b)
             t == x + y + c
         IN <<t % 10000>> \o BigAddC(IF a = <<>> THEN <<>> ELSE Tail(a),
                                     IF b = <<>> THEN <<>> ELSE Tail(b),
                                     t \div 10000)

BigAdd(a, b) == BigAddC(a, b, 0)

RECURSIVE BigScale(_, _, _)
BigScale(a, k, c) ==
    IF a = <<>>
    THEN BigOf(c)
    ELSE LET t == Head(a) * k + c
         IN <<t % 10000>> \o BigScale(Tail(a), k, t \div 10000)

RECURSIVE BigMul(_, _)
BigMul(a, b) ==
    IF a = <<>> \/ b = <<>>
    THEN <<>>
    ELSE LET rest == BigMul(a, Tail(b))
             shifted == IF rest = <<>> THEN <<>> ELSE <<0>> \o rest
         IN BigAdd(BigScale(a, Head(b), 0), shifted)

\* -1, 0 or 1 as a < b, a = b, a > b
RECURSIVE BigCmpFrom(_, _, _)
BigCmpFrom(a, b, i) ==
    IF i = 0 THEN 0
    ELSE IF a[i] > b[i] THEN 1
    ELSE IF a[i] < b[i] THEN -1
    ELSE BigCmpFrom(a, b, i - 1)

RECURSIVE BigTrim(_)
BigTrim(a) ==
    IF a = <<>> THEN <<>>
    ELSE IF a[Len(a)] = 0 THEN BigTrim(SubSeq(a, 1, Len(a) - 1))
    ELSE a

BigCmp(a, b) ==
    LET x == BigTrim(a)
        y == BigTrim(b)
    IN IF Len(x) > Len(y) THEN 1
       ELSE IF Len(x) < Len(y) THEN -1
       ELSE BigCmpFrom(x, y, Len(x))

Abs(x) == IF x < 0 THEN -x ELSE x

\* |x| * |x| as a big natural
BigSquare(x) == BigMul(BigOf(Abs(x)), BigOf(Abs(x)))

----------------------------------------------------------------------------
(* Pixel access *)

\* force a lazily defined grid into an explicit sequence
Pack(g) == [h |-> g.h, w |-> g.w, px |-> SubSeq(g.px, 1, g.h * g.w)]

Inside(g, r, c) == r >= 0 /\ r < g.h /\ c >= 0 /\ c < g.w

At(g, r, c) == g.px[r * g.w + c + 1]

RowOf(g, i) == (i - 1) \div g.w
ColOf(g, i) == (i - 1) % g.w

Count(g, v) == Cardinality({i \in 1..(g.h * g.w) : g.px[i] = v})

ZerosLikeMutant(g) == Pack([h |-> g.h, w |-> g.w, px |-> [i \in 1..(g.h * g.w) |-> 255]])

\* np.zeros_like(img, dtype=np.uint8)
ZerosLike(g) == Pack([h |-> g.h, w |-> g.w, px |-> [i \in 1..(g.h * g.w) |-> 0]])

----------------------------------------------------------------------------
(* cv2.GaussianBlur(img, (5, 5), 0) on 8-bit samples: the separable kernel  *)
(* 1 4 6 4 1 (/16 per axis), BORDER_REFLECT_101, rounded half up.          *)

RECURSIVE Reflect101(_, _)
Reflect101(p, len) ==
    IF len = 1 THEN 0
    ELSE IF p < 0 THEN Reflect101(-p, len)
    ELSE IF p >= len THEN Reflect101(2 * len - 2 - p, len)
    ELSE p

GaussianBlur(g) ==
    Pack([h |-> g.h, w |-> g.w, px |->
        [i \in 1..(g.h * g.w) |->
            LET r == RowOf(g, i)
                c == ColOf(g, i)
                row(dr) == LET rr == Reflect101(r + dr - 3, g.h)
                           IN   At(g, rr, Reflect101(c - 2, g.w))
                              + 4 * At(g, rr, Reflect101(c - 1, g.w))
                              + 6 * At(g, rr, c)
                              + 4 * At(g, rr, Reflect101(c + 1, g.w))
                              + At(g, rr, Reflect101(c + 2, g.w))
                acc == row(1) + 4 * row(2) + 6 * row(3) + 4 * row(4) + row(5)
            IN (acc + 128) \div 256]])

----------------------------------------------------------------------------
(* Global statistics of the blurred image, kept exact:                     *)
(*   img_mean = S / N,  img_std = sqrt(N*Q - S*S) / N                      *)

RECURSIVE SumSqRange(_, _, _)
SumSqRange(s, lo, hi) ==
    IF lo > hi THEN 0
    ELSE IF lo = hi THEN s[lo] * s[lo]
    ELSE LET mid == (lo + hi) \div 2
         IN SumSqRange(s, lo, mid) + SumSqRange(s, mid + 1, hi)

RECURSIVE BigSubB(_, _, _)
BigSubB(a, b, borrow) ==
    IF a = <<>> THEN <<>>
    ELSE LET y == IF b = <<>> THEN 0 ELSE Head(b)
             t == Head(a) - y - borrow
         IN <<(t + 10000) % 10000>> \o
            BigSubB(Tail(a), IF b = <<>> THEN <<>> ELSE Tail(b), IF t < 0 THEN 1 ELSE 0)

\* a - b for a >= b
BigSub(a, b) == BigTrim(BigSubB(a, b, 0))

\* N * N * variance = N * sum(x^2) - (sum x)^2, a big natural
VarNum(g) ==
    LET n == g.h * g.w
    IN BigSub(BigScale(BigOf(SumSqRange(g.px, 1, n)), n, 0), BigSquare(Sum(g)))

\* x >= img_mean + (kn/kd) * img_std for the rational x = xn / xd (xd > 0):
\*   kd * (xn*N - S*xd) >= kn * xd * sqrt(VarNum)
AtLeastMeanPlusStd(xn, xd, kn, kd, g) ==
    LET n == g.h * g.w
        lhs == xn * n - Sum(g) * xd
    IN /\ lhs >= 0
       /\ BigCmp(BigScale(BigSquare(lhs), kd * kd, 0),
                 BigMul(BigSquare(kn * xd), VarNum(g))) >= 0

----------------------------------------------------------------------------
(* cv2.threshold *)

ThresholdMutant(g, t) == Pack(Map(g, LAMBDA v : IF v >= t THEN 255 ELSE 0))

\* THRESH_BINARY: 255 where the sample is strictly above t
Threshold(g, t) == Pack(Map(g, LAMBDA v : IF v > t THEN 255 ELSE 0))

\* THRESH_OTSU: the loop over i = 0..255.  With n1 samples <= i summing to
\* s1 and n2 above summing to s2 the between-class variance is
\* (s1*n2 - s2*n1)^2 / (N^2 * n1 * n2), kept as the pair (a, dn); a later i
\* replaces the best only when strictly larger.
OtsuStep(g, st) ==
    LET n == g.h * g.w
        i == st.i
        hi == Count(g, i)
        m1 == st.n1 + hi
        t1 == st.s1 + i * hi
        m2 == n - m1
        t2 == Sum(g) - t1
        a == t1 * m2 - t2 * m1
        better == /\ m1 > 0
                  /\ m2 > 0
                  /\ a # 0
                  /\ BigCmp(BigMul(BigSquare(a), BigOf(st.dn)),
                            BigMul(BigSquare(st.a), BigOf(m1 * m2))) > 0
    IN [i |-> i + 1, n1 |-> m1, s1 |-> t1,
        a |-> IF better THEN a ELSE st.a,
        dn |-> IF better THEN m1 * m2 ELSE st.dn,
        val |-> IF better THEN i ELSE st.val,
        done |-> i = 255]

OtsuThreshold(g) ==
    Loop(LAMBDA st : OtsuStep(g, st),
         [i |-> 0, n1 |-> 0, s1 |-> 0, a |-> 0, dn |-> 1, val |-> 0, done |-> FALSE]).val

----------------------------------------------------------------------------
(* Morphology with cv2.getStructuringElement(MORPH_ELLIPSE, (3, 3)), which  *)
(* is the 3x3 cross; pixels outside the grid never decide.                 *)

Cross == {<<0, 0>>, <<-1, 0>>, <<1, 0>>, <<0, -1>>, <<0, 1>>}

\* the samples under the cross centred on pixel i
UnderCross(g, i) ==
    {At(g, RowOf(g, i) + o[1], ColOf(g, i) + o[2]) :
        o \in {o \in Cross : Inside(g, RowOf(g, i) + o[1], ColOf(g, i) + o[2])}}

\* cv2.erode: the minimum under the kernel
Erode(g) ==
    Pack([h |-> g.h, w |-> g.w, px |->
        [i \in 1..(g.h * g.w) |->
            CHOOSE v \in UnderCross(g, i) : \A u \in UnderCross(g, i) : v <= u]])

\* cv2.dilate: the maximum under the kernel
Dilate(g) ==
    Pack([h |-> g.h, w |-> g.w, px |->
        [i \in 1..(g.h * g.w) |->
            CHOOSE v \in UnderCross(g, i) : \A u \in UnderCross(g, i) : v >= u]])

RECURSIVE Times(_, _, _)
Times(op(_), n, g) == IF n = 0 THEN g ELSE Times(op, n - 1, op(g))

\* cv2.erode / cv2.dilate with iterations=n
ErodeN(g, n) == Times(Erode, n, g)
DilateN(g, n) == Times(Dilate, n, g)

\* cv2.morphologyEx(g, MORPH_OPEN, kernel, iterations=n): erode n times, then dilate n times
MorphOpen(g, n) == DilateN(ErodeN(g, n), n)

\* n closings one after the other
MorphCloseMutant(g, n) == Times(LAMBDA x : Erode(Dilate(x)), n, g)

\* cv2.morphologyEx(g, MORPH_CLOSE, kernel, iterations=n): dilate n times, then erode n times
MorphClose(g, n) == ErodeN(DilateN(g, n), n)

----------------------------------------------------------------------------
(* cv2.distanceTransform(th, DIST_L2, 5): the two-pass 5x5 chamfer in      *)
(* 16-bit fixed point (1.0, 1.4, 2.1969 scaled by 65536).  The border and  *)
(* every value grown from it lie above the final cap; DistInf stands for   *)
(* all of them.                                                            *)

HvDist == 65536
DiagDist == 91750
LongDist == 143976
DistMax == 536870911
DistInf == 1073741824

SatAdd(x, k) == IF x + k >= DistInf THEN DistInf ELSE x + k

Min2(x, y) == IF x < y THEN x ELSE y

TmpAt(g, tmp, r, c) == IF Inside(g, r, c) THEN tmp[r * g.w + c + 1] ELSE DistInf

\* neighbours read by the forward pass, in the code's order
FwdOffsets == << <<-2, -1, LongDist>>, <<-2, 1, LongDist>>, <<-1, -2, LongDist>>,
                 <<-1, -1, DiagDist>>, <<-1, 0, HvDist>>, <<-1, 1, DiagDist>>,
                 <<-1, 2, LongDist>>, <<0, -1, HvDist>> >>

\* neighbours read by the backward pass: the forward ones mirrored
BwdOffsets == [k \in 1..8 |-> <<-FwdOffsets[k][1], -FwdOffsets[k][2], FwdOffsets[k][3]>>]

RECURSIVE MinOver(_, _, _, _, _, _, _)
MinOver(g, tmp, r, c, offs, k, t0) ==
    IF k > 8 THEN t0
    ELSE MinOver(g, tmp, r, c, offs, k + 1,
                 Min2(t0, SatAdd(TmpAt(g, tmp, r + offs[k][1], c + offs[k][2]), offs[k][3])))

DistForwardStep(g, st) ==
    LET i == st.i
    IN [i |-> i + 1,
        tmp |-> [st.tmp EXCEPT ![i] =
                    IF g.px[i] = 0 THEN 0
                    ELSE MinOver(g, st.tmp, RowOf(g, i), ColOf(g, i), FwdOffsets, 1, DistInf)],
        done |-> i = g.h * g.w]

DistBackwardStep(g, st) ==
    LET i == st.i
    IN [i |-> i - 1,
        tmp |-> [st.tmp EXCEPT ![i] =
                    IF st.tmp[i] > HvDist
                    THEN MinOver(g, st.tmp, RowOf(g, i), ColOf(g, i), BwdOffsets, 1, st.tmp[i])
                    ELSE st.tmp[i]],
        done |-> i = 1]

\* the distance field in units of 1/65536
DistanceTransform(g) ==
    LET n == g.h * g.w
        zeros == SubSeq([i \in 1..n |-> 0], 1, n)
        fwd == Loop(LAMBDA st : DistForwardStep(g, st), [i |-> 1, tmp |-> zeros, done |-> n = 0]).tmp
        bwd == Loop(LAMBDA st : DistBackwardStep(g, st), [i |-> n, tmp |-> fwd, done |-> n = 0]).tmp
    IN Pack([h |-> g.h, w |-> g.w, px |-> [i \in 1..n |-> Min2(bwd[i], DistMax)]])

\* maximum of s[lo..hi] and 0, halving the range
RECURSIVE MaxRange(_, _, _)
MaxRange(s, lo, hi) ==
    IF lo > hi THEN 0
    ELSE IF lo = hi THEN s[lo]
    ELSE LET mid == (lo + hi) \div 2
             x == MaxRange(s, lo, mid)
             y == MaxRange(s, mid + 1, hi)
         IN IF x > y THEN x ELSE y

\* ndarray.max() of a non-negative grid
Max(g) == MaxRange(g.px, 1, g.h * g.w)
\* cv2.threshold(dist_transform, 0.4 * dist_max, 255, 0): 255 where
\* dist > (4/10) * dist_max, i.e. dist > floor(2 * dist_max / 5)
SureFg(dt, dmax) ==
    Pack(Map(dt, LAMBDA v : IF v > (2 * dmax) \div 5 THEN 255 ELSE 0))

\* cv2.subtract on 8-bit grids: saturating a - b
Subtract(a, b) ==
    Pack([h |-> a.h, w |-> a.w, px |->
        [i \in 1..(a.h * a.w) |-> IF a.px[i] > b.px[i] THEN a.px[i] - b.px[i] ELSE 0]])

----------------------------------------------------------------------------
(* cv2.connectedComponents(sure_fg): 8-connectivity; label 0 is the         *)
(* background, components are numbered 1.. in the order the two-row block   *)
(* scan first meets them.                                                  *)

Around == {o \in {-1, 0, 1} \X {-1, 0, 1} : o # <<0, 0>>}

\* the 2x2 block of a pixel, numbered in raster order of blocks
BlockKey(g, i) == (RowOf(g, i) \div 2) * ((g.w + 1) \div 2) + (ColOf(g, i) \div 2)

\* one sweep: every foreground pixel takes the least key among itself and its neighbours
SpreadStep(g, st) ==
    LET nxt == SubSeq([i \in 1..(g.h * g.w) |->
                   IF g.px[i] = 0 THEN -1
                   ELSE LET near == {st.key[i]} \cup
                                    {st.key[(RowOf(g, i) + o[1]) * g.w + ColOf(g, i) + o[2] + 1] :
                                        o \in {o \in Around :
                                                 /\ Inside(g, RowOf(g, i) + o[1], ColOf(g, i) + o[2])
                                                 /\ At(g, RowOf(g, i) + o[1], ColOf(g, i) + o[2]) # 0}}
                        IN CHOOSE k \in near : \A k2 \in near : k <= k2], 1, g.h * g.w)
    IN [key |-> nxt, done |-> nxt = st.key]

ConnectedComponents(g) ==
    LET n == g.h * g.w
        start == SubSeq([i \in 1..n |-> IF g.px[i] = 0 THEN -1 ELSE BlockKey(g, i)], 1, n)
        key == Loop(LAMBDA st : SpreadStep(g, st), [key |-> start, done |-> FALSE]).key
        roots == {key[i] : i \in 1..n} \ {-1}
    IN [num_labels |-> Cardinality(roots) + 1,
        labels |-> Pack([h |-> g.h, w |-> g.w, px |->
                      [i \in 1..n |-> IF key[i] = -1 THEN 0
                                      ELSE Cardinality({k \in roots : k < key[i]}) + 1]])]

----------------------------------------------------------------------------
(* cv2.watershed(img_color, markers) on a grey image replicated to three   *)
(* channels: the colour difference of two pixels is |a - b|.               *)

WSHED == -1
IN_QUEUE == -2

OnBorder(g, i) ==
    \/ RowOf(g, i) = 0 \/ RowOf(g, i) = g.h - 1
    \/ ColOf(g, i) = 0 \/ ColOf(g, i) = g.w - 1

\* offsets of the left, right, top and bottom neighbour in the flat grid
Nbrs(g) == <<-1, 1, -(g.w), g.w>>

\* the lowest queue that is not empty, or 256
FirstQueue(q, from) ==
    LET ne == {k \in from..255 : q[k] # <<>>}
    IN IF ne = {} THEN 256 ELSE CHOOSE k \in ne : \A k2 \in ne : k <= k2

\* initial phase: border pixels become WSHED; every unlabelled interior pixel
\* next to a marker is queued at its smallest difference to such a neighbour
WsInitStep(im, m0, st) ==
    LET i == st.i
        near == {k \in 1..4 : m0[i + Nbrs(im)[k]] > 0}
        diffs == {Abs(im.px[i] - im.px[i + Nbrs(im)[k]]) : k \in near}
        idx == CHOOSE x \in diffs : \A y \in diffs : x <= y
        push == ~OnBorder(im, i) /\ m0[i] = 0 /\ near # {}
    IN [i |-> i + 1,
        mask |-> IF push THEN [st.mask EXCEPT ![i] = IN_QUEUE] ELSE st.mask,
        q |-> IF push THEN [st.q EXCEPT ![idx] = Append(@, i)] ELSE st.q,
        done |-> i = im.h * im.w]

\* the label a popped pixel takes from its left, right, top and bottom neighbours
RECURSIVE WsLabel(_, _, _, _, _)
WsLabel(g, mask, i, k, lab) ==
    IF k > 4 THEN lab
    ELSE LET t == mask[i + Nbrs(g)[k]]
         IN WsLabel(g, mask, i, k + 1,
                    IF t > 0
                    THEN (IF lab = 0 THEN t ELSE IF t # lab THEN WSHED ELSE lab)
                    ELSE lab)

\* queue the unlabelled neighbours of a newly labelled pixel
RECURSIVE WsPush(_, _, _, _)
WsPush(im, st, i, k) ==
    IF k > 4 THEN st
    ELSE LET nb == i + Nbrs(im)[k]
             t == Abs(im.px[i] - im.px[nb])
         IN IF st.mask[nb] = 0
            THEN WsPush(im,
                        [mask |-> [st.mask EXCEPT ![nb] = IN_QUEUE],
                         q |-> [st.q EXCEPT ![t] = Append(@, nb)],
                         active |-> Min2(st.active, t),
                         done |-> FALSE],
                        i, k + 1)
            ELSE WsPush(im, st, i, k + 1)

\* one turn of the fill loop
WsStep(im, st) ==
    LET act == IF st.q[st.active] = <<>> THEN FirstQueue(st.q, st.active + 1) ELSE st.active
    IN IF act = 256
       THEN [st EXCEPT !.done = TRUE]
       ELSE LET i == Head(st.q[act])
                lab == WsLabel(im, st.mask, i, 1, 0)
                popped == [mask |-> [st.mask EXCEPT ![i] = lab],
                           q |-> [st.q EXCEPT ![act] = Tail(@)],
                           active |-> act,
                           done |-> FALSE]
            IN IF lab = WSHED THEN popped ELSE WsPush(im, popped, i, 1)

Watershed(im, mk) ==
    LET n == im.h * im.w
        \* interior pixels below 0 are reset to 0, border pixels are WSHED
        m0 == SubSeq([i \in 1..n |-> IF OnBorder(im, i) THEN WSHED
                                     ELSE IF mk.px[i] < 0 THEN 0
                                     ELSE mk.px[i]], 1, n)
        init == Loop(LAMBDA st : WsInitStep(im, m0, st),
                     [i |-> 1, mask |-> m0, q |-> [k \in 0..255 |-> <<>>], done |-> n = 0])
        first == FirstQueue(init.q, 0)
        fill == Loop(LAMBDA st : WsStep(im, st),
                     [mask |-> init.mask, q |-> init.q, active |-> first, done |-> first = 256])
    IN [h |-> im.h, w |-> im.w, px |-> fill.mask]

----------------------------------------------------------------------------
(* process_image: the pieces between the library calls *)

TooPermissiveMutant(th_o) == 5 * Count(th_o, 255) >= th_o.h * th_o.w

\* frac_otsu > strict_frac_thresh, with frac_otsu = nonzero_otsu / area_img
TooPermissive(th_o) == 5 * Count(th_o, 255) > th_o.h * th_o.w

\* img_mean + 0.6 * img_std >= t, from N, S = sum and V = N*N*variance
MeanPlusStdReaches(n, sm, v, t) ==
    \/ n * t - sm <= 0
    \/ BigCmp(BigScale(BigSquare(n * t - sm), 25, 0), BigScale(v, 9, 0)) <= 0

\* int(max(1, img_mean + k * img_std)) with k = 0.6
StrictT(b) ==
    LET n == b.h * b.w
        sm == Sum(b)
        v == VarNum(b)
    IN IF ~MeanPlusStdReaches(n, sm, v, 1) THEN 1
       ELSE CHOOSE t \in 1..332 :
               MeanPlusStdReaches(n, sm, v, t) /\ ~MeanPlusStdReaches(n, sm, v, t + 1)

MarkerGridMutant(labels, unk) ==
    Pack([h |-> labels.h, w |-> labels.w, px |->
        [i \in 1..(labels.h * labels.w) |-> (IF unk.px[i] = 255 THEN 0 ELSE labels.px[i]) + 1]])

\* markers = markers + 1; markers[unknown == 255] = 0
MarkerGrid(labels, unk) ==
    Pack([h |-> labels.h, w |-> labels.w, px |->
        [i \in 1..(labels.h * labels.w) |-> IF unk.px[i] = 255 THEN 0 ELSE labels.px[i] + 1]])

\* sum of the image over the pixels holding lbl: area * cv2.mean(img, mask=comp_mask)[0]
RECURSIVE MaskedSum(_, _, _, _, _)
MaskedSum(im, m, lbl, lo, hi) ==
    IF lo > hi THEN 0
    ELSE IF lo = hi THEN (IF m.px[lo] = lbl THEN im.px[lo] ELSE 0)
    ELSE LET mid == (lo + hi) \div 2
         IN MaskedSum(im, m, lbl, lo, mid) + MaskedSum(im, m, lbl, mid + 1, hi)

CandidateLabelsMutant(n) == 2..(n - 1)

\* range(2, num_labels + 1)
CandidateLabels(n) == 2..n

\* the loop building comps: (lbl, area, mean_int) for every candidate label of
\* nonzero area, in increasing label order; mean_int is kept as sum / area
RECURSIVE CompsFrom(_, _, _, _)
CompsFrom(im, m, lbl, n) ==
    IF lbl \notin CandidateLabels(n) THEN <<>>
    ELSE LET area == Count(m, lbl)
             rest == CompsFrom(im, m, lbl + 1, n)
         IN IF area = 0 THEN rest
            ELSE <<[lbl |-> lbl, area |-> area,
                    sum |-> MaskedSum(im, m, lbl, 1, m.h * m.w)]>> \o rest

Comps(im, m, n) == CompsFrom(im, m, 2, n)

\* area >= min_area and mean_int >= img_mean + intensity_factor * img_std
MeetsRuleMutant(c, b) == c.area >= 200 \/ AtLeastMeanPlusStd(c.sum, c.area, 7, 10, b)

\* area >= min_area and mean_int >= img_mean + intensity_factor * img_std
MeetsRule(c, b) == c.area >= 200 /\ AtLeastMeanPlusStd(c.sum, c.area, 7, 10, b)

\* the first loop over comps
RuleSelected(cs, b) == SelectSeq(cs, LAMBDA c : MeetsRule(c, b))

KeyGreaterMutant(x, y) == x.sum * y.area > y.sum * x.area

\* the sort key (mean_int, area): x before y under reverse=True
KeyGreater(x, y) ==
    \/ x.sum * y.area > y.sum * x.area
    \/ x.sum * y.area = y.sum * x.area /\ x.area > y.area

FallbackChoicesMutant(cs) ==
    {cs[k].lbl : k \in {k \in 1..Len(cs) : \A k2 \in 1..Len(cs) : ~KeyGreater(cs[k2], cs[k])}}

\* comps_sorted[0][0]: sorted() is stable, so among the components with the
\* greatest key the one that comes first in comps is chosen
FallbackChoices(cs) ==
    {cs[k].lbl : k \in {k \in 1..Len(cs) :
                          /\ \A k2 \in 1..Len(cs) : ~KeyGreater(cs[k2], cs[k])
                          /\ \A k2 \in 1..(k - 1) : KeyGreater(cs[k], cs[k2])}}

BuildValueMutant(lbl) == lbl

\* the value written by seg[markers == lbl] = 255
BuildValue(lbl) == 255

\* seg = zeros_like(img); for lbl in selected_labels: seg[markers == lbl] = 255
BuildSeg(im, m, sel) ==
    Pack([h |-> im.h, w |-> im.w, px |->
        [i \in 1..(im.h * im.w) |->
            IF \E k \in 1..Len(sel) : m.px[i] = sel[k] THEN BuildValue(m.px[i]) ELSE 0]])

\* cv2.cvtColor(img, COLOR_GRAY2BGR).copy()
GrayToBgr(im) == Pack(Map(im, LAMBDA v : <<v, v, v>>))

\* overlay[seg > 0] = (0, 0, 255); cv2.addWeighted(img_color, 0.6, overlay, 0.4, 0)
Blend(im, sg) ==
    Pack([h |-> im.h, w |-> im.w, px |->
        [i \in 1..(im.h * im.w) |->
            IF sg.px[i] > 0
            THEN <<(6 * im.px[i] + 5) \div 10, (6 * im.px[i] + 5) \div 10,
                   (6 * im.px[i] + 5) \div 10 + 102>>
            ELSE <<im.px[i], im.px[i], im.px[i]>>]])

----------------------------------------------------------------------------
(* Scores: Python floats as exact fractions *)

Frac(n, m) == [num |-> n, den |-> m]
One == Frac(1, 1)
Zero == Frac(0, 1)
FracEq(x, y) == x.num * y.den = y.num * x.den
NoScore == Frac(0, 0)

----------------------------------------------------------------------------
(* dice_coef and iou *)

\* pred_bool / gt_bool
Binarize(m) == GreaterThan(m, 0)

DiceIntersectionMutant(p, g) == Sum(Elementwise(Binarize(p), Binarize(g), BitOr))

\* inter = (pred_bool & gt_bool).sum()
Intersection(p, g) == Sum(Elementwise(Binarize(p), Binarize(g), BitAnd))

\* union = (pred_bool | gt_bool).sum()
Union(p, g) == Sum(Elementwise(Binarize(p), Binarize(g), BitOr))

ZeroDenomMutant(inter) == Zero

\* the `denom == 0` / `union == 0` branch
ZeroDenom(inter) == IF inter = 0 THEN One ELSE Zero

dice_coef(p, g) ==
    LET inter == Intersection(p, g)
        denom == Sum(Binarize(p)) + Sum(Binarize(g))
    IN IF denom = 0 THEN ZeroDenom(inter) ELSE Frac(2 * inter, denom)

iou(p, g) ==
    LET inter == Intersection(p, g)
        union == Union(p, g)
    IN IF union = 0 THEN ZeroDenom(inter) ELSE Frac(inter, union)

\* verify_results.load_mask: None stays None, otherwise (m > 127)
load_mask(m) == IF m = NoneImg THEN NoneImg ELSE GreaterThan(m, 127)

----------------------------------------------------------------------------
(* Metric inputs *)

Shapes == {s \in (1..MaxPixels) \X (1..MaxPixels) : s[1] * s[2] <= MaxPixels}

MasksOf(h, w) == {[h |-> h, w |-> w, px |-> p] : p \in [1..(h * w) -> Samples]}

Masks == UNION {MasksOf(s[1], s[2]) : s \in Shapes}

\* nothing bound yet: the locals of a call that has not assigned them
Unbound == NoneImg

NoPrev == [valid |-> FALSE, return_overlay |-> FALSE, seg |-> Unbound]

PipelineIdle ==
    /\ return_overlay = FALSE
    /\ pc = "idle"
    /\ blur = Unbound /\ th_otsu = Unbound /\ strict_t = -1 /\ th = Unbound
    /\ sure_bg = Unbound /\ dist_transform = Unbound /\ dist_max = -1
    /\ sure_fg = Unbound /\ unknown = Unbound /\ num_labels = -1
    /\ markers = Unbound /\ comps = <<>> /\ selected_labels = <<>>
    /\ seg = Unbound /\ overlay = Unbound
    /\ error = "none"
    /\ steps = {}
    /\ prev = NoPrev

\* no batch: main has no result file to go through
BatchIdle ==
    /\ files = <<>>
    /\ cur = 1
    /\ bpc = "loop"
    /\ warnings = <<>>
    /\ summary = <<>>
    /\ avg_d = NoScore
    /\ avg_j = NoScore

MetricsIdle ==
    /\ mpc = "idle"
    /\ d = NoScore
    /\ j = NoScore
    /\ merr = "none"
    /\ BatchIdle

InitMetrics ==
    /\ pred_in \in Masks
    /\ gt_in \in Masks
    /\ MetricsIdle
    /\ img = NoneImg
    /\ PipelineIdle

\* a caller scoring two arrays: d = dice_coef(pred, gt); j = iou(pred, gt)
ScoreDirect ==
    /\ mpc = "idle"
    /\ mpc' = "direct"
    /\ IF Broadcastable(pred_in, gt_in)
       THEN /\ d' = dice_coef(pred_in, gt_in)
            /\ j' = iou(pred_in, gt_in)
            /\ merr' = "none"
       ELSE /\ merr' = "ValueError"
            /\ UNCHANGED <<d, j>>
    /\ UNCHANGED <<pred_in, gt_in, pvars, bvars>>

\* verify_results.main, one result file: load both masks, then score them
ScoreValidated ==
    /\ mpc = "idle"
    /\ mpc' = "validated"
    /\ LET gt == load_mask(gt_in)
           pred == load_mask(pred_in)
       IN IF Broadcastable(pred, gt)
          THEN /\ d' = dice_coef(pred, gt)
               /\ j' = iou(pred, gt)
               /\ merr' = "none"
          ELSE /\ merr' = "ValueError"
               /\ UNCHANGED <<d, j>>
    /\ UNCHANGED <<pred_in, gt_in, pvars, bvars>>

NextMetrics == ScoreDirect \/ ScoreValidated

SpecMetrics == InitMetrics /\ [][NextMetrics]_vars

----------------------------------------------------------------------------
(* verify_results.main: the validation batch *)

\* at most this many result files are in a batch
MaxFiles == 2

\* what cv2.imread finds in a mask file: None for a file it cannot decode
FileContents ==
    {NoneImg,
     [h |-> 1, w |-> 2, px |-> <<255, 0>>],
     [h |-> 1, w |-> 2, px |-> <<255, 255>>],
     [h |-> 1, w |-> 3, px |-> <<0, 255, 0>>]}

\* a result file with the expected mask beside it, or without it
Items ==
    {[expected |-> TRUE, gt |-> g, pred |-> p] : g \in FileContents, p \in FileContents}
        \cup {[expected |-> FALSE, gt |-> NoneImg, pred |-> p] : p \in FileContents}

Batches == UNION {[1..n -> Items] : n \in 0..MaxFiles}

FracAdd(x, y) == Frac(x.num * y.den + y.num * x.den, x.den * y.den)

\* np.mean over one column of summary
RECURSIVE FracSum(_, _)
FracSum(xs, k) == IF k = 0 THEN Zero ELSE FracAdd(FracSum(xs, k - 1), xs[k])

Mean(xs) ==
    LET t == FracSum(xs, Len(xs)) IN Frac(t.num, t.den * Len(xs))

InitBatch ==
    /\ files \in Batches
    /\ cur = 1 /\ bpc = "loop" /\ warnings = <<>> /\ summary = <<>>
    /\ avg_d = NoScore /\ avg_j = NoScore
    /\ pred_in = NoneImg /\ gt_in = NoneImg
    /\ mpc = "idle" /\ d = NoScore /\ j = NoScore /\ merr = "none"
    /\ img = NoneImg
    /\ PipelineIdle

BatchFrame == UNCHANGED <<files, avg_d, avg_j, pred_in, gt_in, mpc, d, j, merr, pvars>>

AfterSkipMutant(i, n) == n + 1

\* `continue`: on to the next result file
AfterSkip(i, n) == i + 1

\* the expected mask is not there: WARNING, continue
SkipMissing ==
    /\ bpc = "loop" /\ cur <= Len(files)
    /\ ~files[cur].expected
    /\ warnings' = Append(warnings, [item |-> cur, kind |-> "missing"])
    /\ cur' = AfterSkip(cur, Len(files))
    /\ UNCHANGED <<bpc, summary>>
    /\ BatchFrame

\* load_mask returned None for one of the two files: WARNING, continue
SkipUnreadable ==
    /\ bpc = "loop" /\ cur <= Len(files)
    /\ files[cur].expected
    /\ load_mask(files[cur].gt) = NoneImg \/ load_mask(files[cur].pred) = NoneImg
    /\ warnings' = Append(warnings, [item |-> cur, kind |-> "unreadable"])
    /\ cur' = AfterSkip(cur, Len(files))
    /\ UNCHANGED <<bpc, summary>>
    /\ BatchFrame

\* both masks loaded and the metrics returned: one more row of summary
ScoreItem ==
    /\ bpc = "loop" /\ cur <= Len(files)
    /\ files[cur].expected
    /\ LET gt == load_mask(files[cur].gt)
           pred == load_mask(files[cur].pred)
       IN /\ gt # NoneImg /\ pred # NoneImg
          /\ Broadcastable(pred, gt)
          /\ summary' = Append(summary, [item |-> cur, d |-> dice_coef(pred, gt),
                                         j |-> iou(pred, gt)])
    /\ cur' = cur + 1
    /\ UNCHANGED <<bpc, warnings>>
    /\ BatchFrame

\* numpy cannot broadcast the two shapes: ValueError leaves main
ItemRaises ==
    /\ bpc = "loop" /\ cur <= Len(files)
    /\ files[cur].expected
    /\ LET gt == load_mask(files[cur].gt)
           pred == load_mask(files[cur].pred)
       IN /\ gt # NoneImg /\ pred # NoneImg
          /\ ~Broadcastable(pred, gt)
    /\ bpc' = "raised"
    /\ UNCHANGED <<cur, warnings, summary>>
    /\ BatchFrame

\* after the loop: the averages, or "No results to summarize."
Summarize ==
    /\ bpc = "loop" /\ cur > Len(files)
    /\ bpc' = "finished"
    /\ IF summary # <<>>
       THEN /\ avg_d' = Mean([k \in 1..Len(summary) |-> summary[k].d])
            /\ avg_j' = Mean([k \in 1..Len(summary) |-> summary[k].j])
       ELSE UNCHANGED <<avg_d, avg_j>>
    /\ UNCHANGED <<files, cur, warnings, summary, pred_in, gt_in, mpc, d, j, merr, pvars>>

NextBatch == SkipMissing \/ SkipUnreadable \/ ScoreItem \/ ItemRaises \/ Summarize

SpecBatch == InitBatch /\ [][NextBatch]_vars

----------------------------------------------------------------------------
(* Images handed to process_image *)

\* side of the small square images
SmallSide == 8

\* side of the large square image and of the blob painted on it
LargeSide == 24
LargeBlob == 15

\* grey levels of the test images
Lo == 40
Hi == 200

\* a blob is a k x k square at (r, c) of level v; later blobs paint over earlier ones
RECURSIVE LevelAt(_, _, _, _, _)
LevelAt(base, blobs, n, r, c) ==
    IF n = 0 THEN base
    ELSE LET b == blobs[n]
         IN IF r >= b.r /\ r < b.r + b.k /\ c >= b.c /\ c < b.c + b.k
            THEN b.v
            ELSE LevelAt(base, blobs, n - 1, r, c)

Paint(rows, cols, base, blobs) ==
    Pack(Grid(rows, cols,
              LAMBDA i : LevelAt(base, blobs, Len(blobs), (i - 1) \div cols, (i - 1) % cols)))

Blob(r, c, k, v) == [r |-> r, c |-> c, k |-> k, v |-> v]

EmptyImg == [h |-> 0, w |-> 0, px |-> <<>>]

UniformImages == {Paint(SmallSide, SmallSide, v, <<>>) : v \in {0, Lo, Hi}}

OneBlobImages ==
    {Paint(SmallSide, SmallSide, base, <<Blob(p[1], p[2], k, Hi)>>) :
        base \in {0, Lo}, k \in {3, 4}, p \in {0, 2} \X {0, 2, 4}}

\* two blobs mirrored about the middle column; with v = Hi they are alike
TwoBlobImages ==
    {Paint(SmallSide, 2 * SmallSide, 0,
           <<Blob(2, 2, 3, Hi), Blob(2, 2 * SmallSide - 5, 3, v)>>) : v \in {Lo, Hi}}

\* a blob that Otsu widens to exactly one fifth of the image
FifthImages ==
    {Paint(SmallSide + 2, SmallSide + 2, 0, <<Blob(3, 1, 4, Hi)>>)}

\* a large bright blob beside a second one that the rule turns down: as
\* large but dimmer, or as bright but left with a smaller region
RuleImages ==
    {Paint(LargeSide, 2 * LargeSide, 0,
           <<Blob(4, 4, LargeBlob, 255), Blob(3, LargeSide + 3, LargeBlob + 3, 150)>>),
     Paint(LargeSide, 2 * LargeSide, 0,
           <<Blob(4, 4, LargeBlob, 255), Blob(4, LargeSide + 4, LargeBlob, 255)>>)}

\* blobs of 3x3 and 4x4 at one level: two regions of equal mean, unequal area
MeanTieImages ==
    {Paint(SmallSide + 2, 2 * SmallSide + 4, 0,
           <<Blob(3, 3, 3, Hi), Blob(3, SmallSide + 4, 4, Hi)>>)}

\* an L: a bright square with one corner cut out
CornerImages ==
    {Paint(2 * SmallSide, 2 * SmallSide, 0,
           <<Blob(3, 3, SmallSide + 2, Hi), Blob(SmallSide, SmallSide, 5, 0)>>)}

\* two rows only: every pixel lies on the image border
ThinImages ==
    {Paint(2, SmallSide, base, <<Blob(0, 2, 3, Hi)>>) : base \in {0, Lo}}

LargeImages ==
    {Paint(LargeSide, LargeSide, 0, <<Blob(4, 4, LargeBlob, Lo)>>)}

Images == {NoneImg, EmptyImg} \cup UniformImages \cup OneBlobImages
            \cup TwoBlobImages \cup ThinImages \cup LargeImages
            \cup FifthImages \cup RuleImages \cup MeanTieImages \cup CornerImages

----------------------------------------------------------------------------
(* process_image, called again and again on one image *)

Init ==
    /\ img \in Images
    /\ PipelineIdle
    /\ pred_in = NoneImg
    /\ gt_in = NoneImg
    /\ MetricsIdle

\* process_image(img, return_overlay=flag): a fresh frame
Call(flag) ==
    /\ pc \in {"idle", "done", "raised"}
    /\ pc' = "entry"
    /\ return_overlay' = flag
    /\ prev' = IF pc = "done"
               THEN [valid |-> TRUE, return_overlay |-> return_overlay, seg |-> seg]
               ELSE prev
    /\ blur' = Unbound /\ th_otsu' = Unbound /\ strict_t' = -1 /\ th' = Unbound
    /\ sure_bg' = Unbound /\ dist_transform' = Unbound /\ dist_max' = -1
    /\ sure_fg' = Unbound /\ unknown' = Unbound /\ num_labels' = -1
    /\ markers' = Unbound /\ comps' = <<>> /\ selected_labels' = <<>>
    /\ seg' = Unbound /\ overlay' = Unbound
    /\ error' = "none"
    /\ steps' = {}
    /\ UNCHANGED <<img, mvars>>

Goto(next, step) ==
    /\ pc' = next
    /\ steps' = steps \cup {step}
    /\ UNCHANGED <<img, return_overlay, error, prev, mvars>>

\* h, w = img.shape on None
EntryNone ==
    /\ pc = "entry"
    /\ img = NoneImg
    /\ pc' = "raised"
    /\ error' = "AttributeError"
    /\ UNCHANGED <<img, return_overlay, locals, steps, prev, mvars>>

\* cv2.GaussianBlur on an array without pixels
EntryEmpty ==
    /\ pc = "entry"
    /\ img # NoneImg
    /\ img.h * img.w = 0
    /\ pc' = "raised"
    /\ error' = "cv2.error"
    /\ UNCHANGED <<img, return_overlay, locals, steps, prev, mvars>>

Blur ==
    /\ pc = "entry"
    /\ img # NoneImg
    /\ img.h * img.w > 0
    /\ blur' = GaussianBlur(img)
    /\ Goto("otsu", "blur")
    /\ UNCHANGED <<th_otsu, strict_t, th, sure_bg, dist_transform, dist_max, sure_fg,
                   unknown, num_labels, markers, comps, selected_labels, seg, overlay>>

Otsu ==
    /\ pc = "otsu"
    /\ th_otsu' = Threshold(blur, OtsuThreshold(blur))
    /\ Goto("fallback", "otsu")
    /\ UNCHANGED <<blur, strict_t, th, sure_bg, dist_transform, dist_max, sure_fg,
                   unknown, num_labels, markers, comps, selected_labels, seg, overlay>>

\* frac_otsu > strict_frac_thresh: rebuild the mask at strict_t
UseStrict ==
    /\ pc = "fallback"
    /\ TooPermissive(th_otsu)
    /\ strict_t' = StrictT(blur)
    /\ th' = Threshold(blur, strict_t')
    /\ Goto("clean", "strict")
    /\ UNCHANGED <<blur, th_otsu, sure_bg, dist_transform, dist_max, sure_fg,
                   unknown, num_labels, markers, comps, selected_labels, seg, overlay>>

\* th = th_otsu
UseOtsu ==
    /\ pc = "fallback"
    /\ ~TooPermissive(th_otsu)
    /\ th' = th_otsu
    /\ Goto("clean", "keep")
    /\ UNCHANGED <<blur, th_otsu, strict_t, sure_bg, dist_transform, dist_max, sure_fg,
                   unknown, num_labels, markers, comps, selected_labels, seg, overlay>>

\* morphological cleaning
Clean ==
    /\ pc = "clean"
    /\ th' = MorphClose(MorphOpen(th, 1), 1)
    /\ Goto("distance", "clean")
    /\ UNCHANGED <<blur, th_otsu, strict_t, sure_bg, dist_transform, dist_max, sure_fg,
                   unknown, num_labels, markers, comps, selected_labels, seg, overlay>>

\* sure background and distance transform
Distance ==
    /\ pc = "distance"
    /\ sure_bg' = DilateN(th, 3)
    /\ dist_transform' = DistanceTransform(th)
    /\ dist_max' = Max(dist_transform')
    /\ Goto("branch", "distance")
    /\ UNCHANGED <<blur, th_otsu, strict_t, th, sure_fg,
                   unknown, num_labels, markers, comps, selected_labels, seg, overlay>>

\* if dist_max == 0: return the empty segmentation
ShortCircuit ==
    /\ pc = "branch"
    /\ dist_max = 0
    /\ seg' = ZerosLike(img)
    /\ overlay' = IF return_overlay THEN GrayToBgr(img) ELSE Unbound
    /\ Goto("done", "short")
    /\ UNCHANGED <<blur, th_otsu, strict_t, th, sure_bg, dist_transform, dist_max, sure_fg,
                   unknown, num_labels, markers, comps, selected_labels>>

\* sure foreground, unknown region, marker labelling
Markers ==
    /\ pc = "branch"
    /\ dist_max # 0
    /\ \E fg \in {SureFg(dist_transform, dist_max)} :
          \E cc \in {ConnectedComponents(fg)} :
             /\ sure_fg' = fg
             /\ unknown' = Subtract(sure_bg, fg)
             /\ num_labels' = cc.num_labels
             /\ markers' = MarkerGrid(cc.labels, Subtract(sure_bg, fg))
    /\ Goto("watershed", "markers")
    /\ UNCHANGED <<blur, th_otsu, strict_t, th, sure_bg, dist_transform, dist_max,
                   comps, selected_labels, seg, overlay>>

\* markers = cv2.watershed(img_color, markers)
ApplyWatershed ==
    /\ pc = "watershed"
    /\ markers' = Watershed(img, markers)
    /\ Goto("filter", "watershed")
    /\ UNCHANGED <<blur, th_otsu, strict_t, th, sure_bg, dist_transform, dist_max, sure_fg,
                   unknown, num_labels, comps, selected_labels, seg, overlay>>

Labels(cs) == [k \in 1..Len(cs) |-> cs[k].lbl]

FilterFrame(how) ==
    /\ comps' = Comps(img, markers, num_labels)
    /\ pc' = "build"
    /\ steps' = steps \cup {"filter", how}
    /\ UNCHANGED <<img, return_overlay, error, prev, mvars>>
    /\ UNCHANGED <<blur, th_otsu, strict_t, th, sure_bg, dist_transform, dist_max, sure_fg,
                   unknown, num_labels, markers, seg, overlay>>

\* some component meets the thresholds
SelectByRule ==
    /\ pc = "filter"
    /\ FilterFrame("rule")
    /\ RuleSelected(comps', blur) # <<>>
    /\ selected_labels' = Labels(RuleSelected(comps', blur))

\* fallback: pick component with highest mean intensity
SelectFallback ==
    /\ pc = "filter"
    /\ FilterFrame("fallback")
    /\ RuleSelected(comps', blur) = <<>>
    /\ comps' # <<>>
    /\ \E l \in FallbackChoices(comps') : selected_labels' = <<l>>

\* comps is empty
SelectNone ==
    /\ pc = "filter"
    /\ FilterFrame("nothing")
    /\ comps' = <<>>
    /\ selected_labels' = <<>>

\* build segmentation mask
Build ==
    /\ pc = "build"
    /\ seg' = BuildSeg(img, markers, selected_labels)
    /\ Goto("refine", "build")
    /\ UNCHANGED <<blur, th_otsu, strict_t, th, sure_bg, dist_transform, dist_max, sure_fg,
                   unknown, num_labels, markers, comps, selected_labels, overlay>>

\* morphological refinement
Refine ==
    /\ pc = "refine"
    /\ seg' = MorphClose(MorphOpen(seg, 1), 2)
    /\ Goto("overlay", "refine")
    /\ UNCHANGED <<blur, th_otsu, strict_t, th, sure_bg, dist_transform, dist_max, sure_fg,
                   unknown, num_labels, markers, comps, selected_labels, overlay>>

SegAfterOverlayMutant(sg, flag) ==
    IF flag THEN Pack(Map(sg, LAMBDA v : IF v > 0 THEN 102 ELSE 0)) ELSE sg

\* lines 160-163 assign overlay only: seg is what refinement left
SegAfterOverlay(sg, flag) == sg

\* overlay, return seg, overlay
Return ==
    /\ pc = "overlay"
    /\ overlay' = IF return_overlay THEN Blend(img, seg) ELSE Unbound
    /\ seg' = SegAfterOverlay(seg, return_overlay)
    /\ Goto("done", "overlay")
    /\ UNCHANGED <<blur, th_otsu, strict_t, th, sure_bg, dist_transform, dist_max, sure_fg,
                   unknown, num_labels, markers, comps, selected_labels>>

Next ==
    \/ \E flag \in BOOLEAN : Call(flag)
    \/ EntryNone
    \/ EntryEmpty
    \/ Blur
    \/ Otsu
    \/ UseStrict
    \/ UseOtsu
    \/ Clean
    \/ Distance
    \/ ShortCircuit
    \/ Markers
    \/ ApplyWatershed
    \/ SelectByRule
    \/ SelectFallback
    \/ SelectNone
    \/ Build
    \/ Refine
    \/ Return

Spec == Init /\ [][Next]_vars

----------------------------------------------------------------------------
(* Properties of the metrics, checked under SpecMetrics *)

\* the arrays dice_coef and iou receive on the path taken
PredArg == IF mpc = "validated" THEN load_mask(pred_in) ELSE pred_in
GtArg == IF mpc = "validated" THEN load_mask(gt_in) ELSE gt_in

SameShape(a, b) == a.h = b.h /\ a.w = b.w

\* the foreground of a mask: the positions of its nonzero samples
Fg(m) == {i \in 1..(m.h * m.w) : m.px[i] # 0}

IsOne(x) == x.den # 0 /\ x.num = x.den
IsZero(x) == x.den # 0 /\ x.num = 0

\* C1: on every scoring path, for masks P and G of identical dimensions, any
\* nonzero sample counts as foreground and Dice = 2|P&G| / (|P|+|G|),
\* IoU = |P&G| / |P|G| whenever the denominator is nonzero.  P and G are the
\* masks handed to the path: the arrays of a direct call, the file contents of
\* the validation path.
C1_ScoresOfNonzeroSets ==
    (mpc # "idle" /\ SameShape(pred_in, gt_in)) =>
        LET P == Fg(pred_in)
            G == Fg(gt_in)
        IN /\ merr = "none"
           /\ Cardinality(P) + Cardinality(G) # 0 =>
                 FracEq(d, Frac(2 * Cardinality(P \cap G), Cardinality(P) + Cardinality(G)))
           /\ Cardinality(P \cup G) # 0 =>
                 FracEq(j, Frac(Cardinality(P \cap G), Cardinality(P \cup G)))

\* C2: for every mask M, the empty one included, dice_coef(M, M) = 1.0 and
\* iou(M, M) = 1.0.
C2_SelfComparisonIsOne ==
    (mpc # "idle" /\ PredArg = GtArg) => (IsOne(d) /\ IsOne(j))

\* an entirely empty mask compared with itself has scored 1.0 twice
C2_Witness ==
    /\ mpc = "direct"
    /\ pred_in = gt_in
    /\ Fg(pred_in) = {}
    /\ IsOne(d)
    /\ IsOne(j)

\* C3: two masks of identical dimensions, both nonempty, sharing no
\* foreground pixel, score Dice 0.0 and IoU 0.0.
C3_DisjointIsZero ==
    (/\ mpc # "idle"
     /\ SameShape(PredArg, GtArg)
     /\ Fg(PredArg) # {}
     /\ Fg(GtArg) # {}
     /\ Fg(PredArg) \cap Fg(GtArg) = {}) => (IsZero(d) /\ IsZero(j))

C3_Witness ==
    /\ mpc = "direct"
    /\ SameShape(pred_in, gt_in)
    /\ Fg(pred_in) # {}
    /\ Fg(gt_in) # {}
    /\ Fg(pred_in) \cap Fg(gt_in) = {}
    /\ IsZero(d)
    /\ IsZero(j)

\* C10: scoring two masks whose dimensions differ always fails; no score is
\* returned for them.
C10_MismatchAlwaysFails ==
    (mpc # "idle" /\ ~SameShape(pred_in, gt_in)) => merr # "none"

----------------------------------------------------------------------------
(* Properties of process_image, checked under Spec *)

Returned == pc = "done"

AllZero(g) == \A i \in 1..(g.h * g.w) : g.px[i] = 0

ValidImage(g) == g # NoneImg /\ g.h * g.w > 0

\* C4: once the region filter has run, if the labelled grid holds a label >= 2
\* on at least one pixel then selected_labels is not empty.
C4_CandidatesAreSelected ==
    ("filter" \in steps /\ \E i \in 1..(markers.h * markers.w) : markers.px[i] >= 2)
        => selected_labels # <<>>

\* the fallback has chosen a region where the rule chose none
C4_Witness ==
    /\ "fallback" \in steps
    /\ \E i \in 1..(markers.h * markers.w) : markers.px[i] >= 2
    /\ RuleSelected(comps, blur) = <<>>
    /\ Len(selected_labels) = 1

\* C5: a distance field whose maximum is 0 ends the call at once: the mask
\* returned is all zero with the input's dimensions, nothing is raised, and
\* marker construction, region growing, region filtering and refinement are
\* not run.  An all-zero image gets an all-background binary mask and takes
\* this way out.
C5_DegenerateShortCircuit ==
    /\ dist_max = 0 =>
          /\ pc \in {"branch", "done"}
          /\ error = "none"
          /\ steps \cap {"markers", "watershed", "filter", "fallback", "rule", "build", "refine"} = {}
          /\ markers = Unbound
          /\ selected_labels = <<>>
          /\ Returned => (SameShape(seg, img) /\ Len(seg.px) = img.h * img.w /\ AllZero(seg))
    /\ (ValidImage(img) /\ AllZero(img)) =>
          /\ pc # "raised"
          /\ th # Unbound => AllZero(th)
          /\ dist_max # -1 => dist_max = 0
          /\ Returned => "short" \in steps

\* an all-zero image has come back through the short-circuit
C5_Witness ==
    /\ Returned
    /\ ValidImage(img)
    /\ AllZero(img)
    /\ "short" \in steps
    /\ AllZero(seg)

\* C6: whatever path a call on a valid image ends on, the mask returned has
\* the input's height and width and every sample is 0 or 255.
C6_MaskShapeAndValues ==
    Returned =>
        /\ SameShape(seg, img)
        /\ Len(seg.px) = img.h * img.w
        /\ \A i \in 1..Len(seg.px) : seg.px[i] \in {0, 255}

\* a call that selected by the rule has returned a mask with foreground
C6_Witness ==
    /\ Returned
    /\ "rule" \in steps
    /\ \E i \in 1..Len(seg.px) : seg.px[i] = 255

\* C7: two calls on the same image with the same arguments return the same
\* mask.
C7_Deterministic ==
    (Returned /\ prev.valid /\ prev.return_overlay = return_overlay) => seg = prev.seg

\* two alike regions tied in the fallback, and the second call has returned
C7_Witness ==
    /\ Returned
    /\ prev.valid
    /\ prev.return_overlay = return_overlay
    /\ "fallback" \in steps
    /\ Len(comps) = 2
    /\ ~KeyGreater(comps[1], comps[2])
    /\ ~KeyGreater(comps[2], comps[1])
    /\ seg = prev.seg

\* C8: the mask returned with the overlay built equals the mask returned
\* without it, on the short-circuit path and on the normal path.
C8_OverlayLeavesMask ==
    (Returned /\ prev.valid /\ prev.return_overlay # return_overlay) => seg = prev.seg

\* a call with the overlay and one without have returned the same foreground
C8_Witness ==
    /\ Returned
    /\ prev.valid
    /\ return_overlay
    /\ ~prev.return_overlay
    /\ "overlay" \in steps
    /\ overlay # Unbound
    /\ \E i \in 1..Len(seg.px) : seg.px[i] = 255
    /\ seg = prev.seg

\* C9: a call on a null or empty image fails with InvalidInput.
C9_InvalidInputRaised ==
    (~ValidImage(img) /\ pc \in {"raised", "done"}) =>
        (pc = "raised" /\ error = "InvalidInput")

----------------------------------------------------------------------------
(* Properties of the validation batch, checked under SpecBatch *)

Missing(i) == ~files[i].expected

\* both mask files of result i are there and decode
Loads(i) ==
    /\ files[i].expected
    /\ files[i].gt # NoneImg
    /\ files[i].pred # NoneImg

\* numpy can combine the two masks of result i
ShapesCombine(i) ==
    Loads(i) /\ Broadcastable(GreaterThan(files[i].pred, 127), GreaterThan(files[i].gt, 127))

Scored(i) == \E k \in 1..Len(summary) : summary[k].item = i

Warned(i, kind) == \E k \in 1..Len(warnings) : warnings[k] = [item |-> i, kind |-> kind]

BatchOver == bpc \in {"finished", "raised"}

\* the Dice (IoU) scores of the results up to n that can be scored, added up
RECURSIVE ScoreTotal(_, _)
ScoreTotal(n, dice) ==
    IF n = 0 THEN Zero
    ELSE IF ShapesCombine(n)
         THEN FracAdd(ScoreTotal(n - 1, dice),
                      IF dice
                      THEN dice_coef(GreaterThan(files[n].pred, 127), GreaterThan(files[n].gt, 127))
                      ELSE iou(GreaterThan(files[n].pred, 127), GreaterThan(files[n].gt, 127)))
         ELSE ScoreTotal(n - 1, dice)

ScoredCount == Cardinality({i \in 1..Len(files) : ShapesCombine(i)})

\* the averages are those of the scored results alone
AveragesOfScored ==
    IF ScoredCount = 0
    THEN avg_d = NoScore /\ avg_j = NoScore
    ELSE /\ avg_d.den # 0
         /\ avg_j.den # 0
         /\ FracEq(avg_d, Frac(ScoreTotal(Len(files), TRUE).num,
                               ScoreTotal(Len(files), TRUE).den * ScoredCount))
         /\ FracEq(avg_j, Frac(ScoreTotal(Len(files), FALSE).num,
                               ScoreTotal(Len(files), FALSE).den * ScoredCount))

\* a result file whose expected mask is missing has been warned about and
\* left out of summary, and it has not ended the batch
MissingIsSkipped ==
    /\ \A i \in 1..Len(files) :
          (Missing(i) /\ i < cur) => (Warned(i, "missing") /\ ~Scored(i))
    /\ bpc = "raised" => (cur <= Len(files) /\ ~Missing(cur))

\* C11 as stated: a result whose ground-truth mask is missing is warned about
\* and skipped without aborting the batch; every later result that has a
\* ground-truth mask is still scored; skipped results add nothing to the
\* averages.
C11_LaterResultsAllScored ==
    /\ MissingIsSkipped
    /\ BatchOver =>
          \A k \in 1..Len(files), i \in 1..Len(files) :
             (Missing(k) /\ k < i /\ files[i].expected) => Scored(i)
    /\ bpc = "finished" => AveragesOfScored

\* C11, amended: a result whose ground-truth mask is missing is warned about
\* and skipped without aborting the batch; every later result whose two masks
\* decode is still scored, up to the first result whose shapes numpy cannot
\* combine, where ValueError ends the batch; only the scored results enter
\* the averages.
C11_MissingGroundTruthSkipped ==
    /\ MissingIsSkipped
    /\ \A i \in 1..Len(files) : (i < cur /\ ShapesCombine(i)) => Scored(i)
    /\ \A i \in 1..Len(files) : Scored(i) => (i < cur /\ ShapesCombine(i))
    /\ bpc = "raised" => (Loads(cur) /\ ~ShapesCombine(cur))
    /\ bpc = "finished" => (cur = Len(files) + 1 /\ AveragesOfScored)

\* the first result had no expected mask, the second has been scored
C11_Witness ==
    /\ bpc = "finished"
    /\ Len(files) = 2
    /\ Missing(1)
    /\ Warned(1, "missing")
    /\ Scored(2)
    /\ Len(summary) = 1
    /\ FracEq(avg_d, summary[1].d)

----------------------------------------------------------------------------
(* Properties of the thresholds, checked under Spec *)

\* hist[v + 1]: how many samples of g hold v
Histogram(g) == SubSeq([v \in 1..256 |-> Count(g, v - 1)], 1, 256)

\* weighted[v + 1] = v * hist[v + 1]
Weighted(hist) == SubSeq([v \in 1..256 |-> (v - 1) * hist[v]], 1, 256)

\* the between-class variance of the split {0..t} / {t+1..255}, times N^2:
\* (s0*n1 - s1*n0)^2 / (n0*n1), and 0 when a class is empty
BetweenVar(hist, wsum, t) ==
    LET n0 == SumRange(hist, 1, t + 1)
        n1 == SumRange(hist, t + 2, 256)
        s0 == SumRange(wsum, 1, t + 1)
        s1 == SumRange(wsum, t + 2, 256)
    IN IF n0 = 0 \/ n1 = 0 THEN [a |-> 0, dn |-> 1]
       ELSE [a |-> s0 * n1 - s1 * n0, dn |-> n0 * n1]

VarLess(x, y) ==
    BigCmp(BigMul(BigSquare(x.a), BigOf(y.dn)), BigMul(BigSquare(y.a), BigOf(x.dn))) < 0

\* all 256 between-class variances of g
Variances(g) ==
    LET hist == Histogram(g)
        wsum == Weighted(hist)
    IN SubSeq([v \in 1..256 |-> BetweenVar(hist, wsum, v - 1)], 1, 256)

\* the smallest t whose variance no other t exceeds
SmallestMaximiser(vs) ==
    CHOOSE t \in 0..255 :
        /\ \A u \in 0..255 : ~VarLess(vs[t + 1], vs[u + 1])
        /\ \A u \in 0..(t - 1) : VarLess(vs[u + 1], vs[t + 1])

AfterOtsu == pc = "fallback"

\* C12 as stated: the Otsu mask is the foreground of `sample >= t*`, t* the
\* smallest maximiser of the between-class variance.
C12_ForegroundAtOrAbove ==
    AfterOtsu =>
        LET t == SmallestMaximiser(Variances(blur))
        IN \A i \in 1..Len(blur.px) : th_otsu.px[i] = 255 <=> blur.px[i] >= t

\* C12, amended: the Otsu selector takes the smallest t* that maximises the
\* between-class variance over the splits {0..t} / {t+1..255}, and the mask
\* holds 255 exactly where the sample is strictly above t* and 0 elsewhere.
C12_ForegroundAbove ==
    AfterOtsu =>
        LET t == SmallestMaximiser(Variances(blur))
        IN \A i \in 1..Len(blur.px) :
              /\ th_otsu.px[i] \in {0, 255}
              /\ th_otsu.px[i] = 255 <=> blur.px[i] > t

\* several thresholds tie for the maximum, and a sample equal to the smallest
\* of them has been left in the background
C12_Witness ==
    /\ AfterOtsu
    /\ LET vs == Variances(blur)
           t == SmallestMaximiser(vs)
       IN /\ t > 0
          /\ ~VarLess(vs[t + 2], vs[t + 1])
          /\ \E i \in 1..Len(blur.px) : blur.px[i] = t /\ th_otsu.px[i] = 0
          /\ \E i \in 1..Len(blur.px) : th_otsu.px[i] = 255

\* v > img_mean + 0.6 * img_std for the blurred image g, with S = sum,
\* N = pixels and V = N*N*variance:  N*v - S > 0.6 * sqrt(V)
AboveMeanPlusStd(g, v) ==
    LET n == g.h * g.w
        lhs == n * v - Sum(g)
    IN /\ lhs > 0
       /\ BigCmp(BigScale(BigSquare(lhs), 25, 0), BigScale(VarNum(g), 9, 0)) > 0

\* the foreground of the Otsu mask is more than 0.20 of the pixels
OverOneFifth == 5 * Cardinality({i \in 1..Len(th_otsu.px) : th_otsu.px[i] # 0}) > img.h * img.w

Decided == "strict" \in steps \/ "keep" \in steps

\* C13: an Otsu mask whose foreground is more than 0.20 of the pixels is
\* replaced once by the mask of `sample > max(1, mean + 0.6*std)`; at 0.20 or
\* less the Otsu mask is kept as it is; the choice is made once per call and
\* not again on the rebuilt mask.
C13_StrictFallbackOnce ==
    /\ Decided =>
          /\ pc # "fallback"
          /\ "strict" \in steps <=> OverOneFifth
          /\ "keep" \in steps <=> ~OverOneFifth
    /\ pc = "clean" =>
          IF OverOneFifth
          THEN \A i \in 1..Len(blur.px) :
                  /\ th.px[i] \in {0, 255}
                  /\ th.px[i] = 255 <=> (blur.px[i] > 1 /\ AboveMeanPlusStd(blur, blur.px[i]))
          ELSE th = th_otsu /\ strict_t = -1

\* the mask was rebuilt at t_strict, still covers more than a fifth of the
\* image, and the call has gone on with it
C13_Witness ==
    /\ "strict" \in steps
    /\ "clean" \in steps
    /\ pc = "distance"
    /\ strict_t > 1
    /\ 5 * Count(Threshold(blur, strict_t), 255) > img.h * img.w

----------------------------------------------------------------------------
(* Properties of the region filter, checked under Spec *)

\* the labels >= 2 that hold at least one pixel of the labelled grid
RegionLabels == {markers.px[i] : i \in 1..Len(markers.px)} \ {WSHED, 0, 1}

Region(l) == {i \in 1..Len(markers.px) : markers.px[i] = l}

\* the source intensities of region l, added up
RegionSum(l) ==
    SumRange(SubSeq([i \in 1..Len(img.px) |-> IF markers.px[i] = l THEN img.px[i] ELSE 0],
                    1, Len(img.px)), 1, Len(img.px))

\* area >= 200 and mean intensity >= global_mean + 0.7 * global_std
Included(l) ==
    /\ Cardinality(Region(l)) >= 200
    /\ AtLeastMeanPlusStd(RegionSum(l), Cardinality(Region(l)), 7, 10, blur)

BeforeRefinement == pc = "refine"

\* C14: when some region meets the inclusion rule, the mask built before
\* refinement is 255 exactly on the pixels of the labels >= 2 with area >= 200
\* and mean source intensity >= global_mean + 0.7 * global_std, and 0 on every
\* other pixel: regions failing either test, background and boundary pixels.
C14_RuleSelectsExactly ==
    BeforeRefinement =>
        LET inc == {l \in RegionLabels : Included(l)}
        IN inc # {} =>
              /\ "rule" \in steps
              /\ \A i \in 1..Len(seg.px) :
                    seg.px[i] = (IF markers.px[i] \in inc THEN 255 ELSE 0)

\* one region was taken by the rule and another, present in the grid, was not
C14_Witness ==
    /\ BeforeRefinement
    /\ "rule" \in steps
    /\ \E l \in RegionLabels : Included(l) /\ \A i \in Region(l) : seg.px[i] = 255
    /\ \E l \in RegionLabels : ~Included(l) /\ \A i \in Region(l) : seg.px[i] = 0

RegionArea(l) == Cardinality(Region(l))

\* mean(l) < mean(k), the means being RegionSum / RegionArea
MeanLess(l, k) == RegionSum(l) * RegionArea(k) < RegionSum(k) * RegionArea(l)

AfterFilter == "filter" \in steps

\* C15: when no region meets the inclusion rule and there is a candidate,
\* exactly one label is selected; no candidate has a greater mean intensity,
\* and none of the same mean has a greater area.
C15_FallbackPicksBrightest ==
    (AfterFilter /\ RegionLabels # {} /\ \A l \in RegionLabels : ~Included(l)) =>
        /\ "fallback" \in steps
        /\ Len(selected_labels) = 1
        /\ selected_labels[1] \in RegionLabels
        /\ \A l \in RegionLabels :
              /\ ~MeanLess(selected_labels[1], l)
              /\ ~MeanLess(l, selected_labels[1]) => RegionArea(l) <= RegionArea(selected_labels[1])

\* two candidates tie on the greatest mean and the larger one, which is not
\* the first in label order, has been selected
C15_Witness ==
    /\ AfterFilter
    /\ "fallback" \in steps
    /\ Len(selected_labels) = 1
    /\ \E l \in RegionLabels :
          /\ l < selected_labels[1]
          /\ ~MeanLess(l, selected_labels[1])
          /\ ~MeanLess(selected_labels[1], l)
          /\ RegionArea(l) < RegionArea(selected_labels[1])

----------------------------------------------------------------------------
(* Properties of the refinement and of the marker grid, checked under Spec *)

\* the mask as Build left it, before the refinement overwrote seg
Filtered == BuildSeg(img, markers, selected_labels)

Refined == Returned /\ "refine" \in steps

\* C16 as stated: the final mask is the filtered mask after one opening
\* (erosion, dilation) and then two closings, each a dilation followed by an
\* erosion.
C16_TwoClosingPasses ==
    Refined => seg = Erode(Dilate(Erode(Dilate(Dilate(Erode(Filtered))))))

\* C16, amended: the final mask is the filtered mask after one opening
\* (erosion, dilation) and one closing of two iterations: two dilations
\* followed by two erosions, all with the 3x3 structuring element.
C16_OpenThenDoubleClose ==
    Refined => seg = Erode(Erode(Dilate(Dilate(Dilate(Erode(Filtered))))))

\* a mask has come back on which two closings in a row would have left
\* pixels unset that the refinement set
C16_Witness ==
    /\ Refined
    /\ seg # Erode(Dilate(Erode(Dilate(Dilate(Erode(Filtered))))))
    /\ seg = Erode(Erode(Dilate(Dilate(Dilate(Erode(Filtered))))))

\* the marker grid is the one handed to cv2.watershed
BeforeWatershed == pc = "watershed"

Seeds == {i \in 1..Len(sure_fg.px) : sure_fg.px[i] # 0}

\* the dilated mask minus the sure foreground
UnknownRegion == {i \in 1..Len(sure_bg.px) : sure_bg.px[i] # 0 /\ sure_fg.px[i] = 0}

\* pixels i and k touch, diagonals included
Touch(i, k) ==
    /\ RowOf(img, i) - RowOf(img, k) \in {-1, 0, 1}
    /\ ColOf(img, i) - ColOf(img, k) \in {-1, 0, 1}

\* every pixel of S that can be walked to from R inside S
RECURSIVE Spread(_, _)
Spread(R, S) ==
    LET more == R \cup {i \in S : \E k \in R : Touch(i, k)}
    IN IF more = R THEN R ELSE Spread(more, S)

IsConnected(S) == S = {} \/ S = Spread({CHOOSE i \in S : TRUE}, S)

\* C17: in the grid handed to region growing every seed holds a label >= 2,
\* seeds that touch hold the same label and the seeds of one label are
\* connected (one label per component, a label of its own for each), every
\* unknown pixel holds 0, every other pixel holds 1, and no seed lies in the
\* region that was reset to 0.
C17_MarkerGridLabels ==
    BeforeWatershed =>
        /\ \A i \in Seeds : markers.px[i] >= 2 /\ unknown.px[i] # 255
        /\ \A i \in Seeds, k \in Seeds : Touch(i, k) => markers.px[i] = markers.px[k]
        /\ \A l \in {markers.px[i] : i \in Seeds} :
              IsConnected({i \in Seeds : markers.px[i] = l})
        /\ {markers.px[i] : i \in Seeds} = 2..num_labels
        /\ \A i \in UnknownRegion : markers.px[i] = 0
        /\ \A i \in 1..Len(markers.px) : i \notin Seeds \cup UnknownRegion => markers.px[i] = 1

\* two separate seeds with labels 2 and 3, an unknown band and background
C17_Witness ==
    /\ BeforeWatershed
    /\ num_labels = 3
    /\ \E i \in Seeds, k \in Seeds : markers.px[i] = 2 /\ markers.px[k] = 3
    /\ \E i \in UnknownRegion : markers.px[i] = 0
    /\ \E i \in 1..Len(markers.px) : markers.px[i] = 1

====
